---- MODULE Spec2Model ----
(***************************************************************************)
(* kirameki: the priority connection pool (kirameki/_priority.py with the *)
(* wrapper of kirameki/pool/_base.py) and the migration engine             *)
(* (kirameki/migrate.py).                                                  *)
(*                                                                         *)
(* Spec     the pool: caller threads, the single-worker creator, the       *)
(*          detached closer started on stall, one step per atomic action   *)
(*          of the code (a queue operation, a dict operation, a counter    *)
(*          update under its lock).                                        *)
(* MigSpec  one migrator running Migrate.up / Migrate.down.                 *)
(* ConcSpec two migrators running against the same database.               *)
(* LoadSpec Migrate.load over the files of a migration directory.          *)
(* FlaskSpec PooledDatabase (kirameki/flask_ext.py) lending the connection *)
(*          of a pool to the application contexts of Flask apps.           *)
(*                                                                         *)
(* The database and the driver are external collaborators.  The database   *)
(* holds the committed history table and the committed effects of the      *)
(* migration bodies, one ACCESS EXCLUSIVE table lock, and one open          *)
(* transaction per migrator.  queue.PriorityQueue is modelled as CPython    *)
(* implements it: a bounded heap list kept by heapq.                        *)
(***************************************************************************)
EXTENDS Integers, Sequences, FiniteSets, TLC

VARIABLES
    \* ---- connection pool ----
    minconn,      \* BasePool.minconn
    maxconn,      \* BasePool.maxconn
    stale_timeout,\* PriorityPool.stale_timeout (NoTimeout for None)
    closed,       \* PriorityPool._closed
    queue,        \* PriorityPool._queue: the heap list of the PriorityQueue
    in_use,       \* PriorityPool._in_use: the checked-out connections
    in_pending,   \* PriorityPool._in_pending
    shutdown,     \* whether _connect_pool.shutdown() was called
    workq,        \* work items submitted to _connect_pool and not yet started
    wpc,          \* position of the creator's worker thread in _unsafe_connect
    wconn,        \* the connection the worker has just created
    now,          \* time.monotonic()
    conns,        \* connections connection_factory has produced
    connClosed,   \* connections on which close() was called
    pc,           \* position of each thread
    loc,          \* the local `entry` / `conn` of the running call
    held,         \* connections each caller holds from get_connection
    result,       \* how the last call of each thread ended
    tmo,          \* whether the running get_connection has a timeout
    branch,       \* the path the running _return_connection takes
    errors,       \* whether the local `errors` of the running _close is non-empty
    waited,       \* the thread was blocked on the empty queue when close() began
    closeReturned,\* a call of _close has run to its end
    pid,          \* BasePool._pid: the process id stored by __reset
    curpid,       \* os.getpid(): the process the threads run in
    \* ---- migration engine ----
    procs,        \* the migrator processes that run
    tunedCalls,   \* the callers of up / down choose isolation_level and num_retries
    versions,     \* Migrate._versions: loaded versions, in the loader's order
    downable,     \* the loaded versions whose migration has a down action
    history,      \* committed rows of __kirameki_history__, in scan order
    schema,       \* committed effects of the migration bodies
    lockHolder,   \* holder of the ACCESS EXCLUSIVE lock on the history table
    mpc,          \* each migrator's position in _migrate
    mop,          \* the public operation that is running: "up" or "down"
    mgiven,       \* whether the caller passed a target
    mtarget,      \* target handed to _migrate
    miso,         \* isolation_level of the session
    retry,        \* the local `retry` of _migrate
    plan,         \* steps of the current plan still to apply
    direction,    \* PlanDirection of the current plan
    txHistory,    \* history table as seen inside the open transaction
    txSchema,     \* body effects as seen inside the open transaction
    reported,     \* progress_callback invocations of the running call:
                  \* << version, success, whether the callback raised >>
    outcome,      \* how the last call ended
    callHistory,  \* committed history when the running call started
    callSchema,   \* committed body effects when the running call started
    sha256,       \* Migration.sha256 of each loaded version
    rowSha256,    \* sha256 column of the committed row of each version
    planned,      \* the last direct call of SimplePlanner.plan and its result
    \* ---- loader ----
    files,        \* the entries of the migration directory
    isLoaded,     \* Migrate._migrations is not None
    loadedVersions,\* the keys of Migrate._migrations
    loaderErrors, \* Loader.errors: the files an error was reported for
    loaderWarnings,\* Loader.warnings: the files a warning was reported for
    loadResult,   \* how the last call of Migrate.load ended
    loadCalls,    \* calls of Migrate.load made so far
    checkResult,  \* how the last call of Migrate._check_loaded ended
    \* ---- flask extension ----
    dbPool,       \* PooledDatabase._pool: NoPool, or the pool of the n-th init_app
    dbApp,        \* PooledDatabase.app
    teardownFuncs,\* per app, the return_connection functions registered with
                  \* teardown_appcontext
    ctxApp,       \* the app whose application context is active
    flaskG,       \* getattr(flask.g, connection_key, None)
    lent,         \* << pool, connection >>: the checked-out connections of each pool
    nextConn,     \* the next connection a pool hands out
    borrowed,     \* connections the pools lent in the active or last context
    returned,     \* calls of return_connection by the teardown of the last context
    handed,       \* what PooledDatabase.get_connection returned in the context
    flaskResult,  \* how the last operation of the extension ended
    \* ---- further callers of the pool ----
    returning     \* entries of the return_connection calls of further threads
                  \* that stand before self._queue.put_nowait(entry)

loadVars == << files, isLoaded, loadedVersions, loaderErrors, loaderWarnings,
               loadResult, loadCalls, checkResult >>

flaskVars == << dbPool, dbApp, teardownFuncs, ctxApp, flaskG, lent, nextConn,
                borrowed, returned, handed, flaskResult >>

crowdVars == << returning >>

extVars == << loadVars, flaskVars, crowdVars >>

engineVars == << procs, tunedCalls, versions, downable, history, schema, lockHolder, mpc, mop, mgiven,
                 mtarget, miso, retry, plan, direction, txHistory, txSchema,
                 reported, outcome, callHistory, callSchema,
                 sha256, rowSha256, planned >>

migVars == << engineVars, extVars >>

poolVars == << minconn, maxconn, stale_timeout, closed, queue, in_use,
               in_pending, shutdown, workq, wpc, wconn, now, conns,
               connClosed, pc, loc, held, result, tmo, branch, errors, waited,
               closeReturned, pid, curpid >>

vars == << poolVars, migVars >>

(***************************************************************************)
(* Bounds of the model.                                                    *)
(***************************************************************************)
MaxVersion == 3        \* versions are drawn from 1..MaxVersion
MaxRetries == 1        \* num_retries is drawn from 0..MaxRetries
MaxFileVersion == 2    \* migration scripts have versions in 1..MaxFileVersion
MaxLoads == 2          \* calls of Migrate.load
NumApps == 2           \* Flask apps
MaxInits == 2          \* calls of PooledDatabase.init_app
MaxConns == 3          \* connections the pools of the extension hand out
CrowdCap == 8          \* maxconn of the pool that many threads return to

\* the two processes that run the migrator against one database
Migrators == {1, 2}
NoHolder == 0

(***************************************************************************)
(* Helpers.                                                                *)
(***************************************************************************)
Range(s) == { s[i] : i \in DOMAIN s }
Last(s) == s[Len(s)]
Min2(a, b) == IF a < b THEN a ELSE b
Max2(a, b) == IF a > b THEN a ELSE b
Minimum(S) == CHOOSE x \in S : \A y \in S : x <= y
Reverse(s) == [ i \in 1..Len(s) |-> s[Len(s) + 1 - i] ]
NoDuplicates(s) == \A i, j \in DOMAIN s : i # j => s[i] # s[j]
\* every ordering of every non-empty subset of S
Orderings(S) ==
    UNION { { s \in [1..n -> S] : \A i, j \in 1..n : i # j => s[i] # s[j] }
            : n \in 1..Cardinality(S) }

(***************************************************************************)
(* The connection pool.                                                    *)
(***************************************************************************)
MaxPool == 2           \* maxconn is drawn from 1..MaxPool
MaxTime == 2           \* the clock runs from 0 to MaxTime
MaxDetached == 1       \* detached closer threads that can be started
NumThreads == 2        \* caller threads
MaxForks == 1          \* times the process is forked
MaxWork == 3           \* work items the executor's queue holds

NoTimeout == -1        \* stale_timeout=None
NONE == 0              \* the sentinel None of the idle queue

Threads == 1..NumThreads
\* the detached threads _unsafe_connect starts on stall
Detached == (NumThreads + 1)..(NumThreads + MaxDetached)
AllThreads == Threads \cup Detached
StaleTimeouts == { NoTimeout, 1 }

\* _entry(created_on, conn): a connection made at time c is the entry c, so
\* entries order by created_on
created_on(entry) == entry

(***************************************************************************)
(* queue.PriorityQueue(maxconn): heapq on a list, as _heapq implements it. *)
(* Comparing the sentinel None with anything raises TypeError and leaves   *)
(* the list as the sift had it.                                            *)
(***************************************************************************)
Swap(h, i, j) == [h EXCEPT ![i] = h[j], ![j] = h[i]]
Unordered(a, b) == a = NONE \/ b = NONE

RECURSIVE SiftDown(_, _)
SiftDown(h, pos) ==
    IF pos <= 1 THEN [h |-> h, err |-> FALSE]
    ELSE LET parent == pos \div 2
         IN  IF Unordered(h[pos], h[parent]) THEN [h |-> h, err |-> TRUE]
             ELSE IF created_on(h[pos]) < created_on(h[parent])
             THEN SiftDown(Swap(h, pos, parent), parent)
             ELSE [h |-> h, err |-> FALSE]

RECURSIVE SiftUp(_, _)
SiftUp(h, pos) ==
    IF pos > Len(h) \div 2 THEN SiftDown(h, pos)
    ELSE LET l == 2 * pos
             r == 2 * pos + 1
         IN  IF r <= Len(h) /\ Unordered(h[l], h[r]) THEN [h |-> h, err |-> TRUE]
             ELSE LET child == IF r <= Len(h) /\ ~(created_on(h[l]) < created_on(h[r]))
                               THEN r ELSE l
                  IN  SiftUp(Swap(h, child, pos), child)

\* Queue.put_nowait: Full before anything is stored; TypeError after the
\* item was appended
PutNowait(q, item, cap) ==
    IF Len(q) >= cap THEN [q |-> q, err |-> "Full"]
    ELSE LET r == SiftDown(Append(q, item), Len(q) + 1)
         IN  [q |-> r.h, err |-> IF r.err THEN "TypeError" ELSE "ok"]

\* a get that hands out the head of the queue and leaves it there
HeapPopKeepsItem(q) == [item |-> q[1], q |-> q, err |-> "ok"]

\* Queue.get on a non-empty queue: on TypeError the item taken off is lost
HeapPop(q) ==
    LET n == Len(q)
        rest == SubSeq(q, 1, n - 1)
    IN  IF n = 1 THEN [item |-> q[1], q |-> << >>, err |-> "ok"]
        ELSE LET r == SiftUp([rest EXCEPT ![1] = q[n]], 1)
             IN  [item |-> q[1], q |-> r.h, err |-> IF r.err THEN "TypeError" ELSE "ok"]

\* PriorityPool.size
\* a size that leaves the pending creations out
SizeWithoutPending == Len(queue) + Cardinality(in_use)

Size == Len(queue) + in_pending + Cardinality(in_use)

\* the real entries on the idle queue
Idle == Range(queue) \ {NONE}

PoolInit ==
    /\ maxconn \in 1..MaxPool
    /\ minconn \in 1..maxconn
    /\ stale_timeout \in StaleTimeouts
    /\ closed = FALSE
    /\ queue = << >>
    /\ in_use = {}
    /\ in_pending = 0
    /\ shutdown = FALSE
    /\ workq = 0
    /\ wpc = "idle"
    /\ wconn = NONE
    /\ now = 0
    /\ conns = {}
    /\ connClosed = {}
    /\ pc = [t \in AllThreads |-> IF t \in Threads THEN "idle" ELSE "unborn"]
    /\ loc = [t \in AllThreads |-> NONE]
    /\ held = [t \in AllThreads |-> {}]
    /\ result = [t \in AllThreads |-> "none"]
    /\ tmo = [t \in AllThreads |-> FALSE]
    /\ branch = [t \in AllThreads |-> "none"]
    /\ errors = [t \in AllThreads |-> FALSE]
    /\ waited = [t \in AllThreads |-> FALSE]
    /\ closeReturned = FALSE
    /\ pid = 1
    /\ curpid = 1

cfgVars == << minconn, maxconn, stale_timeout, closeReturned, pid, curpid >>
workerVars == << workq, wpc, wconn >>
connVars == << conns, connClosed >>
localVars == << loc, tmo, branch, errors >>

\* a call of thread t ends with result r; its locals are gone.  A detached
\* thread has no caller: what it raises is logged.
Finish(t, r) ==
    /\ pc' = [pc EXCEPT ![t] = IF t \in Threads THEN "idle" ELSE "dead"]
    /\ result' = [result EXCEPT ![t] = IF t \in Threads THEN r ELSE "none"]
    /\ loc' = [loc EXCEPT ![t] = NONE]
    /\ tmo' = [tmo EXCEPT ![t] = FALSE]
    /\ branch' = [branch EXCEPT ![t] = "none"]
    /\ errors' = [errors EXCEPT ![t] = FALSE]

Goto(t, p) == pc' = [pc EXCEPT ![t] = p]

\* the wrapper lets every call through
SafeCallNeverRaises == FALSE

\* PriorityPool._reset: a new queue, in_use, executor and counter; the old
\* executor is dropped, and what was submitted to it still runs
Reset ==
    /\ closed' = FALSE
    /\ queue' = << >>
    /\ in_use' = {}
    /\ in_pending' = 0
    /\ shutdown' = FALSE

\* BasePool._safe_call past the closed test: `if self._pid != os.getpid()`,
\* under _fork_lock, calls self._reset(), which leaves _pid as it was
SafeCallPasses ==
    IF pid # curpid THEN Reset
    ELSE UNCHANGED << closed, queue, in_use, in_pending, shutdown >>

\* BasePool._safe_call: the closed test (the process is never forked here, so
\* the pid test finds the stored pid)
SafeCallRaises == closed

(***************************************************************************)
(* get_connection                                                          *)
(***************************************************************************)
\* BasePool.get_connection up to the call of _get_connection
GetConnection(t) ==
    /\ t \in Threads
    /\ UNCHANGED migVars
    /\ pc[t] = "idle"
    /\ waited' = [waited EXCEPT ![t] = FALSE]
    /\ IF SafeCallRaises
       THEN /\ Finish(t, "PoolClosed")
            /\ UNCHANGED << closed, queue, in_use, in_pending, shutdown >>
       ELSE /\ SafeCallPasses
            /\ \E timeout \in BOOLEAN : tmo' = [tmo EXCEPT ![t] = timeout]
            /\ Goto(t, "get_size")
            /\ result' = [result EXCEPT ![t] = "running"]
            /\ UNCHANGED << loc, branch, errors >>
    /\ UNCHANGED << cfgVars, workerVars, now, connVars, held >>

\* `if self.size() < self.maxconn`
GetSize(t) ==
    /\ pc[t] = "get_size"
    /\ UNCHANGED migVars
    /\ Goto(t, IF Size < maxconn THEN "get_connect" ELSE "get_wait")
    /\ UNCHANGED << cfgVars, closed, queue, in_use, in_pending, shutdown,
                    workerVars, now, connVars, localVars, held, result, waited >>

\* _connect: _inc_pending, then submit, which raises RuntimeError once the
\* executor was shut down
ConnectRaises == shutdown
Connect ==
    /\ workq < MaxWork \/ ConnectRaises
    /\ in_pending' = in_pending + 1
    /\ workq' = IF ConnectRaises THEN workq ELSE workq + 1

GetConnect(t) ==
    /\ pc[t] = "get_connect"
    /\ UNCHANGED migVars
    /\ Connect
    /\ IF ConnectRaises
       THEN Finish(t, "RuntimeError")
       ELSE /\ Goto(t, "get_wait")
            /\ UNCHANGED << localVars, result >>
    /\ UNCHANGED << cfgVars, closed, queue, in_use, shutdown, wpc, wconn,
                    now, connVars, held, waited >>

\* a get that tests its deadline after it took the head of the queue
QueueGetTimesOutLate(q, timeout) ==
    IF q = << >> THEN [item |-> NONE, q |-> q, err |-> "Empty"]
    ELSE IF timeout THEN [item |-> NONE, q |-> HeapPop(q).q, err |-> "Empty"]
    ELSE HeapPop(q)

\* queue.get(timeout=timeout) when it returns: the head of the queue, or
\* queue.Empty from an empty queue, which is left as it was
QueueGet(q, timeout) ==
    IF q = << >> THEN [item |-> NONE, q |-> q, err |-> "Empty"]
    ELSE HeapPop(q)

\* self._queue.get(timeout=timeout): takes the head of the queue, or gives up
\* on an empty queue when a timeout was given (with no timeout it blocks)
GetWait(t) ==
    /\ pc[t] = "get_wait"
    /\ UNCHANGED migVars
    /\ queue # << >> \/ tmo[t]
    /\ LET r == QueueGet(queue, tmo[t])
       IN  /\ queue' = r.q
           /\ IF r.err = "ok"
              THEN /\ loc' = [loc EXCEPT ![t] = r.item]
                   /\ Goto(t, IF r.item = NONE THEN "get_sentinel" ELSE "get_take")
                   /\ UNCHANGED << tmo, branch, errors, result >>
              ELSE Finish(t, IF r.err = "Empty" THEN "PoolTimeout" ELSE r.err)
    /\ UNCHANGED << cfgVars, closed, in_use, in_pending, shutdown, workerVars,
                    now, connVars, held, waited >>

\* `if entry is None`: put the sentinel back and raise PoolClosed
GetSentinel(t) ==
    /\ pc[t] = "get_sentinel"
    /\ UNCHANGED migVars
    /\ LET r == PutNowait(queue, NONE, maxconn)
       IN  /\ queue' = r.q
           /\ Finish(t, IF r.err = "ok" THEN "PoolClosed" ELSE r.err)
    /\ UNCHANGED << cfgVars, closed, in_use, in_pending, shutdown, workerVars,
                    now, connVars, held, waited >>

\* self._in_use[id(entry.conn)] = entry; return entry.conn
GetTake(t) ==
    /\ pc[t] = "get_take"
    /\ UNCHANGED migVars
    /\ in_use' = in_use \cup {loc[t]}
    /\ held' = [held EXCEPT ![t] = @ \cup {loc[t]}]
    /\ Finish(t, "ok")
    /\ UNCHANGED << cfgVars, closed, queue, in_pending, shutdown, workerVars,
                    now, connVars, waited >>

(***************************************************************************)
(* return_connection                                                       *)
(***************************************************************************)
\* the connections a caller can hand back: those it holds, and those of the
\* pool that no caller holds (returned before, or never checked out)
Returnable(t) ==
    held[t] \cup (conns \ (UNION { held[u] : u \in Threads } \cup {wconn}))

\* every connection passes for one of the pool
ForeignNever(conn, inuse) == FALSE

\* self._in_use.pop(id(conn)) raises KeyError
Foreign(conn, inuse) == conn \notin inuse

\* BasePool.return_connection up to the call of _return_connection; the
\* caller hands back a connection it holds or one that no caller holds
ReturnConnection(t) ==
    /\ t \in Threads
    /\ UNCHANGED migVars
    /\ pc[t] = "idle"
    /\ \E conn \in Returnable(t) :
         IF SafeCallRaises
         THEN /\ Finish(t, "PoolClosed")
              /\ UNCHANGED << closed, queue, in_use, in_pending, shutdown >>
         ELSE /\ SafeCallPasses
              /\ loc' = [loc EXCEPT ![t] = conn]
              /\ Goto(t, "ret_pop")
              /\ result' = [result EXCEPT ![t] = "running"]
              /\ UNCHANGED << tmo, branch, errors >>
    /\ waited' = [waited EXCEPT ![t] = FALSE]
    /\ UNCHANGED << cfgVars, workerVars, now, connVars, held >>

\* the stale test of _return_connection
IsStale(entry) ==
    stale_timeout # NoTimeout /\ now - created_on(entry) >= stale_timeout

\* self._in_use.pop(id(conn)) and the tests that choose the path: the
\* connection is closed, is inside a transaction, is discarded or stale, or
\* its session reset raises; otherwise it goes back onto the queue
ReturnPop(t) ==
    /\ pc[t] = "ret_pop"
    /\ UNCHANGED migVars
    /\ IF Foreign(loc[t], in_use)
       THEN /\ Finish(t, "PoolError")
            /\ UNCHANGED << in_use, held, connClosed >>
       ELSE /\ in_use' = in_use \ {loc[t]}
            /\ held' = [u \in AllThreads |-> held[u] \ {loc[t]}]
            /\ \E connIsClosed \in BOOLEAN, inTransaction \in BOOLEAN,
                  discard \in BOOLEAN, resetRaises \in BOOLEAN :
                 LET path == IF connIsClosed \/ loc[t] \in connClosed THEN "closed"
                             ELSE IF inTransaction THEN "unclean"
                             ELSE IF discard \/ IsStale(loc[t]) THEN "discard"
                             ELSE IF resetRaises THEN "reset_failed"
                             ELSE "clean"
                 IN  /\ branch' = [branch EXCEPT ![t] = path]
                     /\ connClosed' = IF path = "closed" THEN connClosed \cup {loc[t]}
                                      ELSE connClosed
                     /\ Goto(t, IF path = "clean" THEN "ret_put" ELSE "ret_min_size")
            /\ UNCHANGED << loc, tmo, errors, result >>
    /\ UNCHANGED << cfgVars, closed, queue, in_pending, shutdown, workerVars,
                    now, conns, waited >>

\* _ensure_minconn: `if self.size() < self.minconn`
ReturnMinSize(t) ==
    /\ pc[t] = "ret_min_size"
    /\ UNCHANGED migVars
    /\ Goto(t, IF Size < minconn THEN "ret_min_connect" ELSE "ret_finish")
    /\ UNCHANGED << cfgVars, closed, queue, in_use, in_pending, shutdown,
                    workerVars, now, connVars, localVars, held, result, waited >>

\* _ensure_minconn: self._connect()
ReturnMinConnect(t) ==
    /\ pc[t] = "ret_min_connect"
    /\ UNCHANGED migVars
    /\ Connect
    /\ IF ConnectRaises
       THEN Finish(t, "RuntimeError")
       ELSE /\ Goto(t, "ret_finish")
            /\ UNCHANGED << localVars, result >>
    /\ UNCHANGED << cfgVars, closed, queue, in_use, shutdown, wpc, wconn,
                    now, connVars, held, waited >>

\* what follows _ensure_minconn on each path: return; rollback and close;
\* close; re-raise
ReturnFinish(t) ==
    /\ pc[t] = "ret_finish"
    /\ UNCHANGED migVars
    /\ connClosed' = IF branch[t] \in {"unclean", "discard"}
                     THEN connClosed \cup {loc[t]} ELSE connClosed
    /\ Finish(t, IF branch[t] = "reset_failed" THEN "Exception" ELSE "ok")
    /\ UNCHANGED << cfgVars, closed, queue, in_use, in_pending, shutdown,
                    workerVars, now, conns, held, waited >>

\* self._queue.put_nowait(entry)
ReturnPut(t) ==
    /\ pc[t] = "ret_put"
    /\ UNCHANGED migVars
    /\ LET r == PutNowait(queue, loc[t], maxconn)
       IN  /\ queue' = r.q
           /\ Finish(t, r.err)
    /\ UNCHANGED << cfgVars, closed, in_use, in_pending, shutdown, workerVars,
                    now, connVars, held, waited >>

(***************************************************************************)
(* close                                                                   *)
(***************************************************************************)
\* BasePool.close up to the call of _close; a detached closer arrives here
\* from _stalled_close
Close(t) ==
    /\ \/ t \in Threads /\ pc[t] = "idle"
       \/ pc[t] = "close_call"
    /\ UNCHANGED migVars
    /\ IF SafeCallRaises
       THEN /\ Finish(t, "PoolClosed")
            /\ UNCHANGED << closed, queue, in_use, in_pending, shutdown >>
       ELSE /\ SafeCallPasses
            /\ Goto(t, "close_set")
            /\ result' = [result EXCEPT ![t] = "running"]
            /\ UNCHANGED localVars
    /\ waited' = [waited EXCEPT ![t] = FALSE]
    /\ UNCHANGED << cfgVars, workerVars, now, connVars, held >>

\* self._closed = True
CloseSet(t) ==
    /\ pc[t] = "close_set"
    /\ UNCHANGED migVars
    /\ closed' = TRUE
    /\ Goto(t, "close_in_use")
    /\ waited' = [u \in AllThreads |->
                    waited[u] \/ (pc[u] = "get_wait" /\ queue = << >>)]
    /\ UNCHANGED << cfgVars, queue, in_use, in_pending, shutdown, workerVars,
                    now, connVars, localVars, held, result >>

\* the local _close(entry): entry.conn.close(), an exception goes to errors.
\* On the sentinel entry.conn raises AttributeError.
CloseEntry(t, entry, closeRaises) ==
    /\ connClosed' = IF entry # NONE THEN connClosed \cup {entry} ELSE connClosed
    /\ errors' = [errors EXCEPT ![t] = @ \/ closeRaises \/ entry = NONE]

\* one turn of the popitem loop over _in_use
CloseInUse(t) ==
    /\ pc[t] = "close_in_use"
    /\ UNCHANGED migVars
    /\ IF in_use = {}
       THEN /\ Goto(t, "close_shutdown")
            /\ UNCHANGED << in_use, connClosed, errors >>
       ELSE \E entry \in in_use, closeRaises \in BOOLEAN :
              /\ in_use' = in_use \ {entry}
              /\ CloseEntry(t, entry, closeRaises)
              /\ UNCHANGED pc
    /\ UNCHANGED << cfgVars, closed, queue, in_pending, shutdown, workerVars,
                    now, conns, loc, tmo, branch, held, result, waited >>

\* self._connect_pool.shutdown(): no new work items are accepted
CloseShutdown(t) ==
    /\ pc[t] = "close_shutdown"
    /\ UNCHANGED migVars
    /\ shutdown' = TRUE
    /\ Goto(t, "close_join")
    /\ UNCHANGED << cfgVars, closed, queue, in_use, in_pending, workerVars,
                    now, connVars, localVars, held, result, waited >>

\* shutdown(wait=True) returns when the worker has run every submitted item
CloseJoin(t) ==
    /\ pc[t] = "close_join"
    /\ UNCHANGED migVars
    /\ workq = 0
    /\ wpc = "idle"
    /\ Goto(t, "close_idle")
    /\ UNCHANGED << cfgVars, closed, queue, in_use, in_pending, shutdown,
                    workerVars, now, connVars, localVars, held, result, waited >>

\* one turn of the get_nowait loop over the idle queue
CloseIdle(t) ==
    /\ pc[t] = "close_idle"
    /\ UNCHANGED migVars
    /\ IF queue = << >>
       THEN /\ Goto(t, "close_put")
            /\ UNCHANGED << queue, connClosed, loc, tmo, branch, errors, result >>
       ELSE LET r == HeapPop(queue)
            IN  /\ queue' = r.q
                /\ IF r.err = "ok"
                   THEN /\ \E closeRaises \in BOOLEAN : CloseEntry(t, r.item, closeRaises)
                        /\ UNCHANGED << pc, loc, tmo, branch, result >>
                   ELSE /\ Finish(t, r.err)
                        /\ UNCHANGED connClosed
    /\ UNCHANGED << cfgVars, closed, in_use, in_pending, shutdown, workerVars,
                    now, conns, held, waited >>

\* self._queue.put_nowait(None), then `if errors: raise PoolError(errors)`
ClosePut(t) ==
    /\ pc[t] = "close_put"
    /\ UNCHANGED migVars
    /\ LET r == PutNowait(queue, NONE, maxconn)
       IN  /\ queue' = r.q
           /\ Finish(t, IF r.err # "ok" THEN r.err
                        ELSE IF errors[t] THEN "PoolError" ELSE "ok")
           /\ closeReturned' = (closeReturned \/ r.err = "ok")
    /\ UNCHANGED << minconn, maxconn, stale_timeout, pid, curpid, closed, in_use,
                    in_pending, shutdown, workerVars, now, connVars, held, waited >>

(***************************************************************************)
(* Many threads returning at once: each further thread has run             *)
(* return_connection on its clean connection up to the last statement.     *)
(***************************************************************************)
\* self._queue.put_nowait(entry) of the thread that returns entry c; what it
\* raises goes to that thread's caller
CrowdPut(c) ==
    /\ c \in returning
    /\ returning' = returning \ {c}
    /\ queue' = PutNowait(queue, c, maxconn).q
    /\ UNCHANGED << cfgVars, closed, in_use, in_pending, shutdown, workerVars,
                    now, connVars, pc, localVars, held, result, waited >>
    /\ UNCHANGED << engineVars, loadVars, flaskVars >>

(***************************************************************************)
(* The creator: one worker thread running _unsafe_connect per work item.   *)
(***************************************************************************)
\* _dec_pending, the done callback of the work item
DecPending == in_pending' = in_pending - 1

\* the detached threads not yet started
Unborn == { d \in Detached : pc[d] = "unborn" }

\* the worker takes a work item and calls connection_factory, which takes
\* time and returns a new connection or raises psycopg2.Error
WorkerConnect ==
    /\ wpc = "idle"
    /\ UNCHANGED migVars
    /\ workq > 0
    /\ workq' = workq - 1
    /\ now < MaxTime
    /\ now' = now + 1
    /\ \/ /\ wconn' = now + 1
          /\ conns' = conns \cup {now + 1}
          /\ wpc' = "connected"
       \/ /\ Unborn # {}
          /\ wpc' = "failed"
          /\ UNCHANGED << wconn, conns >>
    /\ UNCHANGED << cfgVars, closed, queue, in_use, in_pending, shutdown,
                    connClosed, pc, localVars, held, result, waited >>

\* `if self._closed`: close the new connection and return
WorkerClosedTest ==
    /\ wpc = "connected"
    /\ UNCHANGED migVars
    /\ IF closed
       THEN /\ connClosed' = connClosed \cup {wconn}
            /\ wconn' = NONE
            /\ wpc' = "idle"
            /\ DecPending
       ELSE /\ wpc' = "enqueue"
            /\ UNCHANGED << connClosed, wconn, in_pending >>
    /\ UNCHANGED << cfgVars, closed, queue, in_use, shutdown, workq, now,
                    conns, pc, localVars, held, result, waited >>

\* self._queue.put_nowait(entry); an exception stays in the future
WorkerEnqueue ==
    /\ wpc = "enqueue"
    /\ UNCHANGED migVars
    /\ queue' = PutNowait(queue, wconn, maxconn).q
    /\ wconn' = NONE
    /\ wpc' = "idle"
    /\ DecPending
    /\ UNCHANGED << cfgVars, closed, in_use, shutdown, workq, now,
                    connVars, pc, localVars, held, result, waited >>

\* the except clause: `if not max(0, self.size() - 1)` starts the detached
\* _stalled_close thread
Stalled == Max2(0, Size - 1) = 0
WorkerFailed ==
    /\ wpc = "failed"
    /\ UNCHANGED migVars
    /\ pc' = IF Stalled THEN [pc EXCEPT ![Minimum(Unborn)] = "stalled"] ELSE pc
    /\ wpc' = "idle"
    /\ DecPending
    /\ UNCHANGED << cfgVars, closed, queue, in_use, shutdown, workq, wconn,
                    now, connVars, localVars, held, result, waited >>

\* _stalled_close: `if self.closed(): return`, else self.close()
StalledClose(t) ==
    /\ pc[t] = "stalled"
    /\ UNCHANGED migVars
    /\ IF closed
       THEN Finish(t, "ok")
       ELSE /\ Goto(t, "close_call")
            /\ UNCHANGED << localVars, result >>
    /\ UNCHANGED << cfgVars, closed, queue, in_use, in_pending, shutdown,
                    workerVars, now, connVars, held, waited >>

\* time passes; the clock is read only to compare an age with a positive
\* stale_timeout
Tick ==
    /\ stale_timeout > 0
    /\ UNCHANGED migVars
    /\ now < MaxTime
    /\ now' = now + 1
    /\ UNCHANGED << cfgVars, closed, queue, in_use, in_pending, shutdown,
                    workerVars, connVars, pc, localVars, held, result, waited >>

\* the steps of the pool apart from the passing of time
PoolSteps ==
    \/ \E t \in AllThreads :
        \/ GetConnection(t)
        \/ GetSize(t)
        \/ GetConnect(t)
        \/ GetWait(t)
        \/ GetSentinel(t)
        \/ GetTake(t)
        \/ ReturnConnection(t)
        \/ ReturnPop(t)
        \/ ReturnMinSize(t)
        \/ ReturnMinConnect(t)
        \/ ReturnFinish(t)
        \/ ReturnPut(t)
        \/ Close(t)
        \/ CloseSet(t)
        \/ CloseInUse(t)
        \/ CloseShutdown(t)
        \/ CloseJoin(t)
        \/ CloseIdle(t)
        \/ ClosePut(t)
        \/ StalledClose(t)
    \/ WorkerConnect
    \/ WorkerClosedTest
    \/ WorkerEnqueue
    \/ WorkerFailed

PoolNext == PoolSteps \/ Tick

\* what a thread does once it is inside a call: the scheduler runs every
\* thread that can run
InternalStep(t) ==
    \/ GetSize(t) \/ GetConnect(t) \/ GetWait(t) \/ GetSentinel(t) \/ GetTake(t)
    \/ ReturnPop(t) \/ ReturnMinSize(t) \/ ReturnMinConnect(t) \/ ReturnFinish(t)
    \/ ReturnPut(t)
    \/ CloseSet(t) \/ CloseInUse(t) \/ CloseShutdown(t) \/ CloseJoin(t)
    \/ CloseIdle(t) \/ ClosePut(t)
    \/ StalledClose(t)
    \/ (pc[t] = "close_call" /\ Close(t))
WorkerStep == WorkerConnect \/ WorkerClosedTest \/ WorkerEnqueue \/ WorkerFailed
Scheduling ==
    /\ \A t \in AllThreads : WF_vars(InternalStep(t))
    /\ WF_vars(WorkerStep)

\* os.fork() while no call is running: the threads go on in the child, which
\* has a copy of the pool object and of the connections the callers hold,
\* and none of the parent's other threads: the creator's worker and what was
\* submitted to it are not there
Fork ==
    /\ \A t \in AllThreads : pc[t] \in {"idle", "unborn", "dead"}
    /\ curpid <= MaxForks
    /\ curpid' = curpid + 1
    /\ workq' = 0
    /\ wpc' = "idle"
    /\ wconn' = NONE
    /\ UNCHANGED << minconn, maxconn, stale_timeout, closeReturned, pid, closed,
                    queue, in_use, in_pending, shutdown, now, connVars, pc,
                    localVars, held, result, waited >>
    /\ UNCHANGED migVars

ForkNext == PoolNext \/ Fork

(***************************************************************************)
(* SimplePlanner.                                                          *)
(***************************************************************************)
\* _get_current_version without its test for holes
GetCurrentVersionNoHoleTest(vs, state) ==
    IF state = << >> THEN [err |-> "none", val |-> -1]
    ELSE LET unknown == { i \in DOMAIN state : state[i] \notin Range(vs) }
         IN  IF unknown # {}
             THEN [err |-> "UnknownMigrationError", val |-> state[Minimum(unknown)]]
             ELSE [err |-> "none", val |-> Last(state)]

\* SimplePlanner._get_current_version: [err, val]; val is the current
\* version, or the version the raised error names.
GetCurrentVersion(vs, state) ==
    IF state = << >> THEN [err |-> "none", val |-> -1]
    ELSE LET unknown == { i \in DOMAIN state : state[i] \notin Range(vs) }
             zipped  == 1..Min2(Len(state), Len(vs))
             holes   == { i \in zipped : state[i] # vs[i] }
         IN  IF unknown # {}
             THEN [err |-> "UnknownMigrationError", val |-> state[Minimum(unknown)]]
             ELSE IF holes # {}
             THEN [err |-> "StateHoleError", val |-> vs[Minimum(holes)]]
             ELSE [err |-> "none", val |-> Last(state)]

\* the clamping of SimplePlanner.plan
ClampTarget(vs, target) == Max2(Min2(target, Last(vs)), -1)

\* SimplePlanner.plan: (plan, direction, current, target), or the error
\* raised by _get_current_version
SimplePlan(vs, state, target) ==
    LET tgt == ClampTarget(vs, target)
        cur == GetCurrentVersion(vs, state)
    IN  IF cur.err # "none"
        THEN [err |-> cur.err, plan |-> << >>, direction |-> "NONE",
              current |-> cur.val, target |-> tgt]
        ELSE IF cur.val = tgt
        THEN [err |-> "none", plan |-> << >>, direction |-> "UNCHANGED",
              current |-> cur.val, target |-> tgt]
        ELSE IF tgt > cur.val
        THEN [err |-> "none",
              plan |-> SelectSeq(vs, LAMBDA v : v > cur.val /\ v <= tgt),
              direction |-> "FORWARD", current |-> cur.val, target |-> tgt]
        ELSE [err |-> "none",
              plan |-> SelectSeq(Reverse(vs), LAMBDA v : v <= cur.val /\ v > tgt),
              direction |-> "BACKWARD", current |-> cur.val, target |-> tgt]

(***************************************************************************)
(* Migrate.                                                                *)
(***************************************************************************)
\* the target Migrate.up / Migrate.down hand to _migrate
DefaultTarget(op, vs) == IF op = "up" THEN Last(vs) ELSE -1
EffectiveTarget(op, given, target, vs) ==
    IF given THEN target ELSE DefaultTarget(op, vs)

\* LOCK TABLE ... IN ACCESS EXCLUSIVE MODE returns only while no other
\* transaction holds the lock.
\* conn.commit() / conn.rollback() of migrator m, by a statement or by the
\* exit of `with conn`: the transaction ends and its locks go
NeverReleased(holder, m) == holder
Released(holder, m) == IF holder = m THEN NoHolder ELSE holder

\* a lock that is granted while another transaction holds it
LockNeverHeld(holder) == TRUE
LockFree(holder) == holder = NoHolder

\* sha256 values of migration files, and the absent row
Sha256s == {1, 2}
NoSha == 0

\* conn.rollback(): the committed data stay, the transaction's view is dropped
RollbackKeepsWork(committed, working) == working
Rollback(committed, working) == committed

\* conn.commit(): the transaction's view becomes the committed data
Commit(committed, working) == working
\* the sha256 column after the commit: a row the transaction inserted holds
\* the sha256 of the loaded migration, a row it kept holds what it held
CommittedSha(working) ==
    [v \in 1..MaxVersion |->
        IF v \notin Range(working) THEN NoSha
        ELSE IF v \in Range(history) THEN rowSha256[v] ELSE sha256[v]]

\* _apply_forwards / _apply_backwards on the history table inside the transaction
InsertRow(rows, ver) == Append(rows, ver)
DeleteRow(rows, ver) == SelectSeq(rows, LAMBDA v : v # ver)
\* the body of the migration, m.up(conn) / m.down(conn)
RunUp(effects, ver) == effects \cup {ver}
RunDown(effects, ver) == effects \ {ver}

IsoLevels == { "default", "serializable" }
TargetArgs == (-1)..(MaxVersion + 1)
\* the arguments the calls draw: the defaults isolation_level=None,
\* num_retries=0 unless the callers choose them
CallIsoLevels == IF tunedCalls THEN IsoLevels ELSE {"default"}
CallRetries == IF tunedCalls THEN 0..MaxRetries ELSE {0}
\* migrators that run side by side and choose them leave the target out
CallGiven == IF tunedCalls /\ Cardinality(procs) > 1 THEN {FALSE} ELSE BOOLEAN

\* the set of database states a planner is handed: rows of distinct versions
\* (version is the PRIMARY KEY), loaded or not
States == { << >> } \cup Orderings(1..(MaxVersion + 1))
NotPlanned ==
    [called |-> FALSE, state |-> << >>, target |-> -1,
     result |-> [err |-> "none", plan |-> << >>, direction |-> "NONE",
                 current |-> -1, target |-> -1]]

\* Migrate.load and a migrator at rest
MigAtRest(ps, maxv) ==
    /\ procs = ps
    /\ versions \in Orderings(1..maxv)
    /\ downable \in { Range(versions) \ S : S \in { T \in SUBSET Range(versions) : Cardinality(T) <= 1 } }
    /\ planned = NotPlanned
    /\ lockHolder = NoHolder
    /\ mpc = [m \in Migrators |-> "idle"]
    /\ mop = [m \in Migrators |-> "up"]
    /\ mgiven = [m \in Migrators |-> FALSE]
    /\ mtarget = [m \in Migrators |-> -1]
    /\ miso = [m \in Migrators |-> "default"]
    /\ retry = [m \in Migrators |-> 1]
    /\ plan = [m \in Migrators |-> << >>]
    /\ direction = [m \in Migrators |-> "NONE"]
    /\ txHistory = [m \in Migrators |-> << >>]
    /\ txSchema = [m \in Migrators |-> {}]
    /\ reported = [m \in Migrators |-> << >>]
    /\ outcome = [m \in Migrators |-> "none"]
    /\ callHistory = [m \in Migrators |-> << >>]
    /\ callSchema = [m \in Migrators |-> {}]

\* migrators that run side by side keep the defaults of up / down
MigLoaded(ps, maxv) ==
    /\ MigAtRest(ps, maxv)
    /\ tunedCalls = (Cardinality(ps) <= 1)

\* CREATE TABLE IF NOT EXISTS on a new database
EmptyDatabase ==
    /\ history = << >>
    /\ schema = {}
    /\ sha256 = [v \in 1..MaxVersion |-> 1]
    /\ rowSha256 = [v \in 1..MaxVersion |-> NoSha]

\* the loaded migrations and an empty database
MigInitWith(ps, maxv) == MigLoaded(ps, maxv) /\ EmptyDatabase

\* the loaded migrations and a database an earlier run migrated to a prefix of
\* the loaded versions, from files whose content may have been another: each
\* row holds the sha256 of the file that was applied (line 513)
MigInitApplied(ps, maxv) ==
    /\ MigLoaded(ps, maxv)
    /\ history \in { SubSeq(versions, 1, k) : k \in 0..Len(versions) }
    /\ schema = Range(history)
    /\ sha256 \in { f \in [1..MaxVersion -> Sha256s] :
                       \A v \in 1..MaxVersion : v \notin Range(versions) => f[v] = 1 }
    /\ rowSha256 \in { f \in [1..MaxVersion -> Sha256s \cup {NoSha}] :
                          \A v \in 1..MaxVersion : (f[v] = NoSha) <=> (v \notin Range(history)) }

\* the call leaves _migrate: the transaction is over and its view is dropped
Leave(m, res) ==
    /\ mpc' = [mpc EXCEPT ![m] = "done"]
    /\ outcome' = [outcome EXCEPT ![m] = res]
    /\ plan' = [plan EXCEPT ![m] = << >>]
    /\ direction' = [direction EXCEPT ![m] = "NONE"]
    /\ txHistory' = [txHistory EXCEPT ![m] = << >>]
    /\ txSchema' = [txSchema EXCEPT ![m] = {}]

\* Migrate.up / Migrate.down up to the retry loop of _migrate
MigCall(m) ==
    /\ m \in procs
    /\ mpc[m] = "idle"
    /\ UNCHANGED << poolVars, extVars >>
    /\ \E op \in {"up", "down"}, given \in CallGiven, target \in TargetArgs,
          num_retries \in CallRetries, iso \in CallIsoLevels :
        /\ mop' = [mop EXCEPT ![m] = op]
        /\ mgiven' = [mgiven EXCEPT ![m] = given]
        /\ mtarget' = [mtarget EXCEPT ![m] = EffectiveTarget(op, given, target, versions)]
        /\ miso' = [miso EXCEPT ![m] = iso]
        /\ retry' = [retry EXCEPT ![m] = num_retries + 1]
    /\ mpc' = [mpc EXCEPT ![m] = "lock"]
    /\ reported' = [reported EXCEPT ![m] = << >>]
    /\ outcome' = [outcome EXCEPT ![m] = "running"]
    /\ callHistory' = [callHistory EXCEPT ![m] = history]
    /\ callSchema' = [callSchema EXCEPT ![m] = schema]
    /\ UNCHANGED << planned, sha256, rowSha256, procs, tunedCalls, versions, downable, history, schema, lockHolder, plan,
                    direction, txHistory, txSchema >>

\* LOCK TABLE __kirameki_history__ IN ACCESS EXCLUSIVE MODE
MigLock(m) ==
    /\ m \in procs
    /\ mpc[m] = "lock"
    /\ UNCHANGED << poolVars, extVars >>
    /\ LockFree(lockHolder)
    /\ lockHolder' = m
    /\ mpc' = [mpc EXCEPT ![m] = "plan"]
    /\ txHistory' = [txHistory EXCEPT ![m] = history]
    /\ txSchema' = [txSchema EXCEPT ![m] = schema]
    /\ UNCHANGED << planned, sha256, rowSha256, procs, tunedCalls, versions, downable, history, schema, mop, mgiven, mtarget,
                    miso, retry, plan, direction, reported, outcome,
                    callHistory, callSchema >>

\* the downable check tests the first version of the plan only
NotDownableHead(steps, dn) ==
    steps # << >> /\ steps[1] \notin dn

\* `for ver in plan: if not self._migrations[ver].downable`
NotDownable(steps, dn) ==
    \E i \in DOMAIN steps : steps[i] \notin dn

\* SELECT version FROM __kirameki_history__, the planner, the downable check
MigPlan(m) ==
    /\ m \in procs
    /\ mpc[m] = "plan"
    /\ UNCHANGED << poolVars, extVars >>
    /\ LET p == SimplePlan(versions, txHistory[m], mtarget[m])
       IN  IF p.err # "none"
           THEN /\ Leave(m, p.err)
                /\ lockHolder' = Released(lockHolder, m)
           ELSE IF p.direction = "UNCHANGED"
           THEN /\ Leave(m, "ok")
                /\ lockHolder' = Released(lockHolder, m)
           ELSE IF p.direction = "BACKWARD" /\ NotDownable(p.plan, downable)
           THEN /\ Leave(m, "PlanningError")
                /\ lockHolder' = Released(lockHolder, m)
           ELSE /\ mpc' = [mpc EXCEPT ![m] = "apply"]
                /\ plan' = [plan EXCEPT ![m] = p.plan]
                /\ direction' = [direction EXCEPT ![m] = p.direction]
                /\ UNCHANGED << lockHolder, outcome, txHistory, txSchema >>
    /\ UNCHANGED << planned, sha256, rowSha256, procs, tunedCalls, versions, downable, history, schema, mop, mgiven, mtarget,
                    miso, retry, reported, callHistory, callSchema >>

\* what the body of a step or the write of its history row can do
StepResults(m, ver) ==
    {"ok", "Exception"}
        \cup (IF miso[m] # "default" THEN {"SerializationFailure"} ELSE {})

\* a _progress that lets the exception of the callback out
ProgressRaises(rep, ver, success, raises) ==
    [rep |-> Append(rep, << ver, success, raises >>), raised |-> raises]

\* _progress: the callback is invoked with (version, success); an Exception
\* it raises is logged and swallowed
Progress(rep, ver, success, raises) ==
    [rep |-> Append(rep, << ver, success, raises >>), raised |-> FALSE]

\* the progress_callback of a call raises at every invocation or at none
CallbackRaises(rep) ==
    IF rep = << >> THEN BOOLEAN ELSE {rep[1][3]}

\* one iteration of `for ver in plan`, with its except clause
MigStep(m) ==
    /\ m \in procs
    /\ mpc[m] = "apply"
    /\ UNCHANGED << poolVars, extVars >>
    /\ plan[m] # << >>
    /\ LET ver == Head(plan[m])
           duplicate == direction[m] = "FORWARD" /\ ver \in Range(txHistory[m])
       IN  \E res \in StepResults(m, ver), cbRaises \in CallbackRaises(reported[m]) :
             LET stepOk == res = "ok" /\ ~duplicate
                 after == Progress(reported[m], ver, TRUE, cbRaises)
             IN  IF stepOk /\ ~after.raised
                 THEN /\ txSchema' = [txSchema EXCEPT ![m] =
                            IF direction[m] = "FORWARD" THEN RunUp(@, ver) ELSE RunDown(@, ver)]
                      /\ txHistory' = [txHistory EXCEPT ![m] =
                            IF direction[m] = "FORWARD" THEN InsertRow(@, ver) ELSE DeleteRow(@, ver)]
                      /\ reported' = [reported EXCEPT ![m] = after.rep]
                      /\ plan' = [plan EXCEPT ![m] = Tail(@)]
                      /\ UNCHANGED << history, schema, lockHolder, mpc, direction, outcome >>
                 ELSE /\ reported' = [reported EXCEPT ![m] =
                            Progress(IF stepOk THEN after.rep ELSE @, ver, FALSE, cbRaises).rep]
                      /\ history' = Rollback(history, txHistory[m])
                      /\ schema' = Rollback(schema, txSchema[m])
                      /\ lockHolder' = Released(lockHolder, m)
                      /\ Leave(m, IF res = "ok" THEN "Exception" ELSE res)
    /\ UNCHANGED << planned, sha256, rowSha256, procs, tunedCalls, versions, downable, mop, mgiven, mtarget, miso, retry,
                    callHistory, callSchema >>

CommitResults(m) ==
    {"ok"} \cup (IF miso[m] # "default" THEN {"SerializationFailure"} ELSE {})

\* conn.commit() after the last step, with its except clause and the loop test
MigCommit(m) ==
    /\ m \in procs
    /\ mpc[m] = "apply"
    /\ UNCHANGED << poolVars, extVars >>
    /\ plan[m] = << >>
    /\ \E res \in CommitResults(m) :
         IF res = "ok"
         THEN /\ history' = Commit(history, txHistory[m])
              /\ schema' = Commit(schema, txSchema[m])
              /\ rowSha256' = CommittedSha(txHistory[m])
              /\ lockHolder' = Released(lockHolder, m)
              /\ Leave(m, "ok")
              /\ UNCHANGED retry
         ELSE /\ retry' = [retry EXCEPT ![m] = @ - 1]
              /\ history' = Rollback(history, txHistory[m])
              /\ UNCHANGED rowSha256
              /\ schema' = Rollback(schema, txSchema[m])
              /\ lockHolder' = Released(lockHolder, m)
              /\ IF retry[m] - 1 = 0
                 THEN Leave(m, "ok")
                 ELSE /\ mpc' = [mpc EXCEPT ![m] = "lock"]
                      /\ plan' = [plan EXCEPT ![m] = << >>]
                      /\ direction' = [direction EXCEPT ![m] = "NONE"]
                      /\ txHistory' = [txHistory EXCEPT ![m] = << >>]
                      /\ txSchema' = [txSchema EXCEPT ![m] = {}]
                      /\ UNCHANGED outcome
    /\ UNCHANGED << planned, sha256, procs, tunedCalls, versions, downable, mop, mgiven, mtarget, miso, reported,
                    callHistory, callSchema >>

\* the caller has the result; the arguments and locals of the call are gone
MigReturn(m) ==
    /\ m \in procs
    /\ mpc[m] = "done"
    /\ UNCHANGED << poolVars, extVars >>
    /\ mpc' = [mpc EXCEPT ![m] = "idle"]
    /\ mop' = [mop EXCEPT ![m] = "up"]
    /\ mgiven' = [mgiven EXCEPT ![m] = FALSE]
    /\ mtarget' = [mtarget EXCEPT ![m] = -1]
    /\ miso' = [miso EXCEPT ![m] = "default"]
    /\ retry' = [retry EXCEPT ![m] = 1]
    /\ reported' = [reported EXCEPT ![m] = << >>]
    /\ outcome' = [outcome EXCEPT ![m] = "none"]
    /\ callHistory' = [callHistory EXCEPT ![m] = << >>]
    /\ callSchema' = [callSchema EXCEPT ![m] = {}]
    /\ UNCHANGED << planned, sha256, rowSha256, procs, tunedCalls, versions, downable, history, schema, lockHolder, plan,
                    direction, txHistory, txSchema >>

MigNext ==
    \E m \in Migrators :
        \/ MigCall(m)
        \/ MigReturn(m)
        \/ MigLock(m)
        \/ MigPlan(m)
        \/ MigStep(m)
        \/ MigCommit(m)

\* the steps of a migrator inside _migrate once it has the lock: the process
\* runs on; and the lock: PostgreSQL grants a released table lock to a
\* transaction that waits for it
MigRun(m) == MigPlan(m) \/ MigStep(m) \/ MigCommit(m)
MigScheduling ==
    \A m \in Migrators : WF_vars(MigRun(m)) /\ SF_vars(MigLock(m))

\* a direct call of SimplePlanner.plan; the planner keeps nothing between
\* calls, so one call per behaviour shows them all
PlannerCall ==
    /\ ~planned.called
    /\ \E state \in States, target \in TargetArgs :
         planned' = [called |-> TRUE, state |-> state, target |-> target,
                     result |-> SimplePlan(versions, state, target)]
    /\ UNCHANGED << poolVars, extVars, procs, tunedCalls, versions, downable, history, schema, lockHolder,
                    mpc, mop, mgiven, mtarget, miso, retry, plan, direction,
                    txHistory, txSchema, reported, outcome, callHistory,
                    callSchema, sha256, rowSha256 >>

(***************************************************************************)
(* The loader: SQLLoader.load_all and Migrate.load.                        *)
(***************************************************************************)
\* the entries a migration directory can hold, by what load_all makes of them
UpFile(v) == << "up", v >>          \* m_<v>_name.sql or m_<v>_name.up.sql
DownFile(v) == << "down", v >>      \* m_<v>_name.down.sql
Directory == << "dir", 0 >>         \* os.path.isdir
NotSql == << "nosql", 0 >>          \* another suffix than .sql
NotIdentifier == << "noident", 0 >> \* the stem is not a Python identifier
NoNameMatch == << "nomatch", 0 >>   \* the stem does not match _name_re
BadInteger == << "badint", 0 >>     \* the version group is underscores only
FileUniverse ==
    { UpFile(v) : v \in 1..MaxFileVersion } \cup { DownFile(v) : v \in 1..MaxFileVersion }
        \cup {Directory, NotSql, NotIdentifier, NoNameMatch, BadInteger}

\* _parse_filename and the isdir test: the warnings and errors of the first loop
ParseWarnings(fs) == fs \cap {Directory, NotSql}
ParseErrors(fs) == fs \cap {NotIdentifier, NoNameMatch}
\* the second loop: a down script without its up script is an error, every
\* version with an up script yields a migration
OrphanDowns(fs) == { f \in fs : f[1] = "down" /\ UpFile(f[2]) \notin fs }
Yielded(fs) == { f[2] : f \in { x \in fs : x[1] = "up" } }

\* Migrate.load, what it returns or raises once load_all has run:
\* `if self._migrations is not None: return False` comes first
LoadResult(loaded, errs) ==
    IF loaded THEN "False" ELSE IF errs # {} THEN "LoadFailed" ELSE "True"

\* Migrate.load.  int() of a version group without a digit raises ValueError
\* and the handler calls self._report, which does not exist: load_all ends
\* with AttributeError after any part of the listing was parsed, and
\* _migrations stays None.
Load ==
    /\ loadCalls < MaxLoads
    /\ loadCalls' = loadCalls + 1
    /\ IF isLoaded
       THEN /\ loadResult' = LoadResult(TRUE, loaderErrors)
            /\ UNCHANGED << isLoaded, loadedVersions, loaderErrors, loaderWarnings >>
       ELSE IF BadInteger \in files
       THEN \E seen \in SUBSET (files \ {BadInteger}) :
              /\ loaderErrors' = loaderErrors \cup ParseErrors(seen)
              /\ loaderWarnings' = loaderWarnings \cup ParseWarnings(seen)
              /\ loadResult' = "AttributeError"
              /\ UNCHANGED << isLoaded, loadedVersions >>
       ELSE /\ isLoaded' = TRUE
            /\ loadedVersions' = Yielded(files)
            /\ loaderErrors' = loaderErrors \cup ParseErrors(files) \cup OrphanDowns(files)
            /\ loaderWarnings' = loaderWarnings \cup ParseWarnings(files)
            /\ loadResult' = LoadResult(FALSE, loaderErrors')
    /\ UNCHANGED << files, checkResult >>
    /\ UNCHANGED << poolVars, engineVars, flaskVars, crowdVars >>

\* Migrate._check_loaded, the first statement of up() and down()
CheckLoaded ==
    /\ checkResult' = IF isLoaded THEN "ok" ELSE "RuntimeError"
    /\ UNCHANGED << files, isLoaded, loadedVersions, loaderErrors, loaderWarnings,
                    loadResult, loadCalls >>
    /\ UNCHANGED << poolVars, engineVars, flaskVars, crowdVars >>

LoadNext == Load \/ CheckLoaded

\* a Migrate that was constructed on any migration directory
LoaderInit ==
    /\ files \in SUBSET FileUniverse
    /\ isLoaded = FALSE
    /\ loadedVersions = {}
    /\ loaderErrors = {}
    /\ loaderWarnings = {}
    /\ loadResult = "none"
    /\ loadCalls = 0
    /\ checkResult = "none"

\* the loader after a load without faults, for the other specifications
LoaderIdle ==
    /\ files = {}
    /\ isLoaded = TRUE
    /\ loadedVersions = {}
    /\ loaderErrors = {}
    /\ loaderWarnings = {}
    /\ loadResult = "True"
    /\ loadCalls = MaxLoads
    /\ checkResult = "ok"

(***************************************************************************)
(* PooledDatabase: the connection of the application context.              *)
(***************************************************************************)
Apps == 1..NumApps
NoApp == 0
NoPool == 0

\* the _in_use of pool p
InUseOf(p) == { x[2] : x \in { y \in lent : y[1] = p } }

\* init_app: an initialized extension closes its pool; then a new pool is
\* made and one more return_connection function is registered with the
\* teardown_appcontext of the app
InitApp(a) ==
    /\ dbPool < MaxInits
    /\ lent' = { x \in lent : x[1] # dbPool }
    /\ dbApp' = a
    /\ dbPool' = dbPool + 1
    /\ teardownFuncs' = [teardownFuncs EXCEPT ![a] = @ + 1]
    /\ flaskResult' = "ok"
    /\ UNCHANGED << ctxApp, flaskG, nextConn, borrowed, returned, handed >>
    /\ UNCHANGED << poolVars, engineVars, loadVars, crowdVars >>

\* `with app.app_context():` of an app the extension was initialized with
PushContext(a) ==
    /\ ctxApp = NoApp
    /\ teardownFuncs[a] > 0
    /\ ctxApp' = a
    /\ flaskG' = NONE
    /\ borrowed' = 0
    /\ returned' = 0
    /\ handed' = {}
    /\ flaskResult' = "none"
    /\ UNCHANGED << dbPool, dbApp, teardownFuncs, lent, nextConn >>
    /\ UNCHANGED << poolVars, engineVars, loadVars, crowdVars >>

\* PooledDatabase.get_connection; the pool hands out a connection or raises
DbGetConnection ==
    /\ dbPool = NoPool \/ ctxApp # NoApp
    /\ IF dbPool = NoPool
       THEN /\ flaskResult' = "RuntimeError"
            /\ UNCHANGED << flaskG, lent, nextConn, borrowed, handed >>
       ELSE IF flaskG # NONE
       THEN /\ handed' = handed \cup {flaskG}
            /\ flaskResult' = "ok"
            /\ UNCHANGED << flaskG, lent, nextConn, borrowed >>
       ELSE \E gives \in BOOLEAN :
              IF gives /\ nextConn <= MaxConns
              THEN /\ lent' = lent \cup {<< dbPool, nextConn >>}
                   /\ nextConn' = nextConn + 1
                   /\ borrowed' = borrowed + 1
                   /\ flaskG' = nextConn
                   /\ handed' = handed \cup {nextConn}
                   /\ flaskResult' = "ok"
              ELSE /\ flaskResult' = "PoolTimeout"
                   /\ UNCHANGED << flaskG, lent, nextConn, borrowed, handed >>
    /\ UNCHANGED << dbPool, dbApp, teardownFuncs, ctxApp, returned >>
    /\ UNCHANGED << poolVars, engineVars, loadVars, crowdVars >>

\* the registered return_connection functions, run one after the other on
\* the pool the extension has now; the first exception ends the teardown
RECURSIVE Teardown(_, _, _)
Teardown(k, inuse, calls) ==
    IF k = 0 \/ flaskG = NONE THEN [inuse |-> inuse, calls |-> calls, err |-> "ok"]
    ELSE IF Foreign(flaskG, inuse)
    THEN [inuse |-> inuse, calls |-> calls + 1, err |-> "PoolError"]
    ELSE Teardown(k - 1, inuse \ {flaskG}, calls + 1)

\* the application context ends: teardown_appcontext
PopContext ==
    /\ ctxApp # NoApp
    /\ LET r == Teardown(teardownFuncs[ctxApp], InUseOf(dbPool), 0)
       IN  /\ lent' = { x \in lent : x[1] # dbPool } \cup { << dbPool, c >> : c \in r.inuse }
           /\ returned' = r.calls
           /\ flaskResult' = r.err
    /\ ctxApp' = NoApp
    /\ flaskG' = NONE
    /\ UNCHANGED << dbPool, dbApp, teardownFuncs, nextConn, borrowed, handed >>
    /\ UNCHANGED << poolVars, engineVars, loadVars, crowdVars >>

FlaskNext ==
    \/ \E a \in Apps : InitApp(a)
    \/ \E a \in Apps : PushContext(a)
    \/ DbGetConnection
    \/ PopContext

\* PooledDatabase() before init_app
FlaskInit ==
    /\ dbPool = NoPool
    /\ dbApp = NoApp
    /\ teardownFuncs = [a \in Apps |-> 0]
    /\ ctxApp = NoApp
    /\ flaskG = NONE
    /\ lent = {}
    /\ nextConn = 1
    /\ borrowed = 0
    /\ returned = 0
    /\ handed = {}
    /\ flaskResult = "none"

\* the loader and the extension at rest, for the other specifications
NoCrowd == returning = {}
ExtIdle == LoaderIdle /\ FlaskInit /\ NoCrowd

\* the migration engine at rest, for the specification of the pool
MigIdle == MigInitWith({}, 1) /\ downable = {1}
\* the pool at rest, for the specifications of the migration engine
PoolIdle == PoolInit /\ maxconn = 1 /\ stale_timeout = NoTimeout

(***************************************************************************)
(* Properties of the pool.                                                 *)
(***************************************************************************)
\* no background creation is queued or running
Settled == workq = 0 /\ wpc = "idle"
\* no call is running on any thread
NoCallRunning == \A t \in AllThreads : pc[t] \in {"idle", "unborn", "dead"}
\* the sentinels on the idle queue
Sentinels == { i \in DOMAIN queue : queue[i] = NONE }
\* the callers that took the sentinel and have not yet put it back
SentinelCarriers == { t \in AllThreads : pc[t] = "get_sentinel" }

\* C1: while the pool is open, whenever all creations have settled,
\* idle + in_use + in_pending is at most maxconn.
C1_SizeWithinMaxconn ==
    (~closed /\ Settled) => Size <= maxconn

\* C2: a caller that was blocked in get_connection on the empty queue when
\* close() began ends that call with PoolClosed (or, having given a timeout,
\* with PoolTimeout).
C2_WaitersEndWithPoolClosed ==
    \A t \in Threads :
        (waited[t] /\ pc[t] = "idle") => result[t] \in {"PoolClosed", "PoolTimeout"}

\* C3: a connection is in at most one of the idle queue, in_use and the
\* creation in flight; it is never held by two callers, and never idle while
\* a caller holds it or is taking it.
C3_ConnectionInOnePlace ==
    /\ \A i, j \in DOMAIN queue : (i # j /\ queue[i] = queue[j]) => queue[i] = NONE
    /\ Idle \cap in_use = {}
    /\ wconn # NONE => wconn \notin (Idle \cup in_use)
    /\ \A t, u \in Threads : t # u => held[t] \cap held[u] = {}
    /\ \A t \in Threads : held[t] \cap Idle = {}
    /\ \A t \in Threads : pc[t] = "get_take" => loc[t] \notin (Idle \cup in_use)
    /\ \A t, u \in Threads :
          (t # u /\ pc[t] = "get_take" /\ pc[u] = "get_take") => loc[t] # loc[u]

\* C3 witness: a connection that was checked out and returned is idle again
\* while a second connection is checked out.
C3_Witness ==
    /\ ~closed
    /\ \E t \in Threads : held[t] = {2} /\ result[t] = "ok" /\ pc[t] = "idle"
    /\ Idle = {1}
    /\ in_use = {2}

\* C4: once close() has returned, the idle queue holds no real entry, and
\* exactly one sentinel is on the queue or in the hands of the waiter that
\* is putting it back.
C4_ClosedQueueHoldsOneSentinel ==
    closeReturned =>
        /\ Idle = {}
        /\ Cardinality(Sentinels) + Cardinality(SentinelCarriers) = 1

\* C5: once close() has returned and every call and every creation has
\* finished, in_use is empty and every connection the factory produced has
\* been closed.
C5_CloseLeavesNothingOpen ==
    (closeReturned /\ NoCallRunning /\ Settled) =>
        /\ in_use = {}
        /\ conns \subseteq connClosed

\* C17: close() called on a pool that an earlier close() has closed, while
\* no other call is running, returns normally and changes nothing: no
\* connection is closed, no sentinel is enqueued, the pool state is the same.
C17_CloseOnClosedPoolSucceeds ==
    [][\A t \in Threads :
          (closed /\ closeReturned /\ NoCallRunning /\ Close(t)) =>
              /\ result'[t] = "ok"
              /\ UNCHANGED << closed, queue, in_use, in_pending, shutdown, connClosed >>]_vars

\* the threads inside _close, past `self._closed = True`
Closers ==
    { t \in AllThreads : pc[t] \in {"close_in_use", "close_shutdown", "close_join",
                                     "close_idle", "close_put"} }

\* C18: concurrent calls of close() are serialized: at most one thread is
\* inside the close steps at any time, and at most one sentinel is ever on
\* the idle queue.
C18_ClosesAreSerialized ==
    /\ Cardinality(Closers) <= 1
    /\ Cardinality(Sentinels) <= 1

\* C19: a close() in which the close of some connection failed still runs
\* to its last step, and when it ends the pool is closed, the creator is shut
\* down, in_use and the idle queue hold no connection, the sentinel is on
\* the queue, and the call raises PoolError.
C19_CloseErrorsAreAggregated ==
    [][\A t \in Threads :
          (errors[t] /\ pc[t] \in {"close_in_use", "close_shutdown", "close_join",
                                    "close_idle", "close_put"}
                     /\ pc'[t] = "idle") =>
              /\ pc[t] = "close_put"
              /\ result'[t] = "PoolError"
              /\ closed' /\ shutdown'
              /\ in_use' = {}
              /\ Range(queue') = {NONE}]_vars

\* C20: the step of return_connection that looks the connection up in
\* in_use, taken for a connection that is not there, ends the call with
\* PoolError and leaves the idle queue, in_use and in_pending unchanged.
C20_ForeignReturnRejected ==
    [][\A t \in Threads :
          (pc[t] = "ret_pop" /\ loc[t] \notin in_use /\ pc'[t] # "ret_pop") =>
              /\ pc'[t] = "idle"
              /\ result'[t] = "PoolError"
              /\ UNCHANGED << queue, in_use, in_pending >>]_vars

\* C20 witness: on an open pool whose one connection is idle on the queue
\* and held by no caller, a caller handed a connection back and the call
\* ended with PoolError; the connection is on the queue once.
C20_Witness ==
    /\ ~closed
    /\ NoCallRunning /\ Settled
    /\ in_use = {}
    /\ Cardinality(conns) = 1
    /\ queue = << CHOOSE c \in conns : TRUE >>
    /\ \E t \in Threads : pc[t] = "idle" /\ result[t] = "PoolError"

\* thread t takes a step of a get_connection call that has not taken an
\* entry off the queue: the entry into the call, the size test, the request
\* of a creation, or the get that ends with PoolTimeout
StepOfTimedOutGet(t) ==
    \/ pc[t] = "idle" /\ pc'[t] = "get_size"
    \/ pc[t] = "get_size" /\ pc'[t] # "get_size"
    \/ pc[t] = "get_connect" /\ pc'[t] # "get_connect"
    \/ pc[t] = "get_wait" /\ pc'[t] = "idle" /\ result'[t] = "PoolTimeout"

\* C21: no step of a get_connection call that ends with PoolTimeout removes
\* an entry from the idle queue, adds one to in_use, or hands one to the
\* caller.
C21_TimeoutChecksNothingOut ==
    [][\A t \in Threads :
          StepOfTimedOutGet(t) => UNCHANGED << queue, in_use, held >>]_vars

\* C21 witness: a get_connection call ended with PoolTimeout while another
\* caller holds the connection of the pool.
C21_Witness ==
    /\ ~closed
    /\ \E t, u \in Threads :
          /\ t # u
          /\ pc[t] = "idle" /\ result[t] = "PoolTimeout"
          /\ held[u] # {} /\ held[u] = in_use

\* C22: get_connection and return_connection entered on a closed pool end
\* at once with PoolClosed: the idle queue, in_use and in_pending are
\* untouched and no creation is requested.
C22_ClosedPoolRefusesCalls ==
    [][\A t \in Threads :
          (closed /\ (GetConnection(t) \/ ReturnConnection(t))) =>
              /\ pc'[t] = "idle"
              /\ result'[t] = "PoolClosed"
              /\ UNCHANGED << queue, in_use, in_pending, workq, held >>]_vars

\* C22 witness: close() has returned, nothing is in flight, and a caller
\* that holds a connection it checked out before was refused with
\* PoolClosed.
C22_Witness ==
    /\ closeReturned
    /\ NoCallRunning /\ Settled
    /\ \E t \in Threads : held[t] # {} /\ result[t] = "PoolClosed"

\* C23: a caller that is inside a public operation has passed the wrapper
\* in the current process, so the stored pid is the current process id: the
\* pool state was reinitialized for this process and later operations of
\* the process find nothing to reset.
C23_ResetStoresPid ==
    (\E t \in Threads : pc[t] # "idle") => pid = curpid

\* the paths of _return_connection that take the connection out of
\* circulation and close it
ClosingPaths == {"closed", "unclean", "discard"}
\* the age of the connection has reached stale_timeout
AgedOut(conn) == stale_timeout # NoTimeout /\ now - created_on(conn) >= stale_timeout
\* the step in which return_connection of thread t tests a connection of
\* the pool whose age has reached stale_timeout
StaleTested(t) ==
    /\ pc[t] = "ret_pop" /\ pc'[t] # "ret_pop"
    /\ loc[t] \in in_use
    /\ AgedOut(loc[t])
\* the step in which thread t leaves a return_connection that discards
\* such a connection
StaleReturnEnds(t) ==
    /\ pc[t] \in {"ret_min_size", "ret_min_connect", "ret_finish"}
    /\ branch[t] = "discard"
    /\ AgedOut(loc[t])
    /\ pc'[t] = "idle"

\* C24: a connection whose age has reached stale_timeout when it is returned
\* goes down a closing path and never to the idle queue; the return that
\* discards it has closed the connection when it ends; and no connection that
\* was closed is handed out by a later get_connection.
C24_StaleConnectionRecycled ==
    [][/\ \A t \in Threads :
            /\ StaleTested(t) => branch'[t] \in ClosingPaths /\ pc'[t] = "ret_min_size"
            /\ StaleReturnEnds(t) => loc[t] \in connClosed'
        /\ (in_use' \ in_use) \cap connClosed' = {}]_vars

\* thread t takes the step that follows position p of its return_connection
\* while the pool is open
ReturnStepFrom(t, p) == pc[t] = p /\ pc'[t] # p /\ ~closed

ReturnOfCheckedOutEnds(t) ==
    /\ pc[t] \in {"ret_min_size", "ret_min_connect", "ret_finish", "ret_put"}
    /\ pc'[t] = "idle"

\* C31: a return_connection that ends on a closed pool, for a connection it
\* found checked out, has closed the connection and has put nothing onto the
\* idle queue.
C31_ReturnOnClosedPoolCloses ==
    [][\A t \in Threads : (closed /\ ReturnOfCheckedOutEnds(t)) =>
          /\ loc[t] \in connClosed'
          /\ queue' = queue]_vars

\* C32: on an open pool, the return of a connection that is open, idle in
\* its transaction, not discarded and not stale, and whose session reset
\* succeeded, ends normally with the entry on the idle queue under its own
\* created_on, out of in_use and not closed.
C32_CleanReturnRequeues ==
    [][\A t \in Threads : ReturnStepFrom(t, "ret_put") =>
          /\ result'[t] = "ok"
          /\ Idle' = Idle \cup {loc[t]}
          /\ Len(queue') = Len(queue) + 1
          /\ loc[t] \notin in_use'
          /\ loc[t] \notin connClosed']_vars

\* the worker ends a creation in which the factory returned a connection
CreationEnds == wpc \in {"connected", "enqueue"} /\ wpc' = "idle"

\* C33: a creation that ends after the pool was closed has closed the new
\* connection and has enqueued nothing; a creation that ends on an open pool
\* has added the new connection, open, to the idle queue as one entry.
C33_CreationEndsClosedOrEnqueued ==
    [][CreationEnds =>
          IF closed
          THEN wconn \in connClosed' /\ queue' = queue
          ELSE /\ wconn \in Idle' /\ wconn \notin connClosed'
               /\ Len(queue') = Len(queue) + 1]_vars

\* the stall thread of _unsafe_connect has been started
StallStarted == \E d \in Detached : pc[d] = "stalled"
\* the executor still holds work and the clock of the model has run out
ClockExhausted == workq > 0 /\ wpc = "idle" /\ now >= MaxTime
\* t waits in queue.get without a timeout while nothing else is idle, in use
\* or pending
BlockedAlone(t) ==
    /\ pc[t] = "get_wait" /\ ~tmo[t]
    /\ in_use = {} /\ queue = << >> /\ in_pending = 0
    /\ \A u \in AllThreads : loc[u] = 0
\* C34: once a failed creation has started the stall thread on a pool that
\* holds no other connection, idle, in use or pending, every caller blocked
\* in get_connection without a timeout eventually fails with PoolClosed
C34_StalledPoolFailsWaiters ==
    \/ <>ClockExhausted
    \/ \A t \in Threads :
          (StallStarted /\ BlockedAlone(t)) ~>
              (pc[t] = "idle" /\ result[t] = "PoolClosed")

TakesEntry(t) == pc[t] = "get_wait" /\ pc'[t] = "get_take"
\* C35: a get_connection that takes an entry off the idle queue while two or
\* more real entries are idle takes the one with the smallest created_on
C35_CheckoutOldestFirst ==
    [][\A t \in Threads : (TakesEntry(t) /\ Cardinality(Idle) >= 2) =>
          \A e \in Idle : created_on(loc'[t]) <= created_on(e)]_vars

\* thread t runs one of its put_nowait calls: the re-put of the sentinel by
\* a waiter, the put of a returned entry, the put of the sentinel by close()
ThreadPuts(t) ==
    /\ pc[t] \in {"get_sentinel", "ret_put", "close_put"}
    /\ pc'[t] # pc[t]
\* the creator runs its put_nowait
CreatorPuts == wpc = "enqueue" /\ wpc' = "idle"
\* C37: the idle queue never holds more than maxconn items, and every
\* put_nowait onto it finds the queue below maxconn
C37_EveryPutFindsRoom ==
    [][/\ Len(queue') <= maxconn
       /\ CreatorPuts => Len(queue) < maxconn
       /\ \A t \in AllThreads : ThreadPuts(t) => Len(queue) < maxconn]_vars

\* C38: when return_connection ends for a connection it took out of in_use,
\* with a result or an exception, the connection is on the idle queue or
\* closed
C38_ReturnLeaksNothing ==
    [][\A t \in Threads : ReturnOfCheckedOutEnds(t) =>
          loc[t] \in Idle' \cup connClosed']_vars

\* C25: the count of pending creations is never negative, whatever the
\* interleaving of calls, forks and completions of background creations.
C25_PendingNeverNegative == in_pending >= 0

\* C26: every increment of the pending count is undone by one decrement when
\* the creation it announced is over, so the count is zero whenever no
\* creation is queued or running.
C26_PendingMatchesCreations == Settled => in_pending = 0

(***************************************************************************)
(* Properties of the migration engine.                                     *)
(***************************************************************************)
\* the greatest loaded version
GreatestVersion == CHOOSE v \in Range(versions) : \A w \in Range(versions) : w <= v
\* the loaded versions up to a target
UpTo(target) == { v \in Range(versions) : v <= target }
\* the rows are the loaded versions up to some version
AppliedPrefix(rows) ==
    /\ NoDuplicates(rows)
    /\ \E k \in (-1)..MaxVersion : Range(rows) = UpTo(k)
\* the history one up() with no target leaves on an empty database
SingleRunHistory == SimplePlan(versions, << >>, DefaultTarget("up", versions)).plan
\* every migrator called up() with no target on the empty database, in the
\* default isolation level, and has finished without a step raising
BothRanUp ==
    \A m \in procs :
        /\ mpc[m] = "done"
        /\ mop[m] = "up" /\ ~mgiven[m] /\ miso[m] = "default"
        /\ callHistory[m] = << >> /\ callSchema[m] = {}
        /\ outcome[m] # "Exception"

\* C6: two migrators that ran up() concurrently on the empty database both
\* return successfully, no version is twice in the history table, and the
\* history is that of a single run.
C6_ConcurrentUpsSucceed ==
    BothRanUp =>
        /\ \A m \in procs : outcome[m] = "ok"
        /\ NoDuplicates(history)
        /\ history = SingleRunHistory

C8_ExhaustedRetriesRaise ==
    \A m \in procs :
        (mpc[m] = "done" /\ retry[m] = 0) => outcome[m] = "SerializationFailure"

\* C9: a call ends with SerializationFailure only when no retry remains.
C9_SerializationFailureIsRetried ==
    \A m \in procs :
        (mpc[m] = "done" /\ outcome[m] = "SerializationFailure") => retry[m] <= 1

\* C10: a call that started on an applied prefix and succeeded leaves
\* exactly the loaded versions up to its target in the history table, the
\* target clamped to -1 .. greatest loaded version; up() with no target
\* leaves every loaded version.
C10_HistoryIsVersionsUpToTarget ==
    \A m \in procs :
        (/\ mpc[m] = "done" /\ outcome[m] = "ok" /\ retry[m] > 0
         /\ AppliedPrefix(callHistory[m])) =>
            LET target == IF mgiven[m] THEN Max2(Min2(mtarget[m], GreatestVersion), -1)
                          ELSE IF mop[m] = "up" THEN GreatestVersion ELSE -1
            IN  /\ NoDuplicates(history)
                /\ Range(history) = UpTo(target)

\* C12: when every loaded migration is downable, up() with no target on the
\* empty history succeeds and leaves every loaded version applied, and
\* down() with no target on the history that up() left succeeds and leaves
\* the history table and the body effects empty.
C12_UpDownRoundTrip ==
    \A m \in procs :
        (/\ mpc[m] = "done" /\ ~mgiven[m] /\ miso[m] = "default"
         /\ downable = Range(versions)
         /\ outcome[m] # "Exception") =>
            /\ (mop[m] = "up" /\ callHistory[m] = << >>) =>
                   /\ outcome[m] = "ok"
                   /\ NoDuplicates(history)
                   /\ Range(history) = Range(versions)
            /\ (mop[m] = "down" /\ callHistory[m] = SingleRunHistory) =>
                   /\ outcome[m] = "ok"
                   /\ history = << >>
                   /\ schema = {}

\* the plan of the call of migrator m, from the history table it found
CallPlan(m) == SimplePlan(versions, callHistory[m], mtarget[m])

\* the plan of the call is a backward plan with a version that is not downable
BackwardNotDownable(m) ==
    /\ CallPlan(m).err = "none"
    /\ CallPlan(m).direction = "BACKWARD"
    /\ Range(CallPlan(m).plan) \ downable # {}

\* C15: a call whose backward plan contains a version that is not downable
\* fails with PlanningError before any step runs: no step of such a plan is
\* ever started, nothing is reported, and the history table and the body
\* effects are those the call found.
C15_NotDownableFailsBeforeAnyStep ==
    \A m \in procs :
        /\ (mpc[m] # "idle" /\ BackwardNotDownable(m)) =>
              /\ mpc[m] # "apply"
              /\ reported[m] = << >>
              /\ history = callHistory[m]
              /\ schema = callSchema[m]
        /\ (mpc[m] = "done" /\ BackwardNotDownable(m)) =>
              outcome[m] = "PlanningError"

\* C15 witness: a call failed with PlanningError on a backward plan whose
\* first version is downable and a later one is not.
C15_Witness ==
    \E m \in procs :
        /\ mpc[m] = "done"
        /\ outcome[m] = "PlanningError"
        /\ BackwardNotDownable(m)
        /\ Len(CallPlan(m).plan) >= 2
        /\ CallPlan(m).plan[1] \in downable

\* the call of migrator m is a down() whose target is greater than the
\* current version of the history table it found
DownAboveCurrent(m) ==
    /\ mop[m] = "down"
    /\ GetCurrentVersion(versions, callHistory[m]).err = "none"
    /\ mtarget[m] > GetCurrentVersion(versions, callHistory[m]).val

\* C16: a call of down() with a target greater than the current version
\* fails with PlanningError and applies nothing: the history table and the
\* body effects are those the call found.
C16_DownNeverMigratesForward ==
    \A m \in procs :
        (mpc[m] = "done" /\ DownAboveCurrent(m)) =>
            /\ outcome[m] = "PlanningError"
            /\ history = callHistory[m]
            /\ schema = callSchema[m]

Retried(m) == mpc[m] = "apply" /\ mpc'[m] = "lock"
Locked(m) == mpc[m] = "lock" /\ mpc'[m] = "plan"
Planned(m) == mpc[m] = "plan" /\ mpc'[m] = "apply"
AppliedForward(m) ==
    /\ mpc[m] = "apply" /\ mpc'[m] = "apply"
    /\ direction[m] = "FORWARD"
    /\ Len(plan'[m]) < Len(plan[m])
\* C36: a call starts with retry = num_retries + 1 and every retry lowers it
\* and leaves it positive; every attempt takes the lock anew, reads the
\* committed history and plans from it; no forward step applies a version
\* that is in the history table; and every call ends
C36_RetryReplansFromCommitted ==
    /\ [][\A m \in Migrators :
            /\ (mpc[m] = "idle" /\ mpc'[m] = "lock") => retry'[m] \in 1..(MaxRetries + 1)
            /\ Retried(m) =>
                  /\ retry'[m] = retry[m] - 1 /\ retry'[m] >= 1
                  /\ plan'[m] = << >> /\ lockHolder' = NoHolder
            /\ Locked(m) => lockHolder' = m /\ txHistory'[m] = history
            /\ Planned(m) =>
                  /\ lockHolder = m
                  /\ plan'[m] = SimplePlan(versions, history, mtarget[m]).plan
            /\ AppliedForward(m) => Head(plan[m]) \notin Range(history)]_vars
    /\ \A m \in Migrators : (outcome[m] = "running") ~> (outcome[m] # "running")
\* a retry plans after the other migrator committed
C36_Witness ==
    \E m \in Migrators :
        /\ mpc[m] = "plan" /\ lockHolder = m
        /\ reported[m] # << >>
        /\ history # callHistory[m]

\* C39: a migrator holds the lock exactly while it is between LOCK TABLE
\* and the end of its transaction, whichever way the attempt ends; and a
\* migrator that waits for the lock gets it
C39_LockIsReleasedOnEveryExit ==
    /\ [](\A m \in Migrators : (lockHolder = m) <=> (mpc[m] \in {"plan", "apply"}))
    /\ \A m \in Migrators : (mpc[m] = "lock") ~> (mpc[m] = "plan")
\* one migrator left by an exception and the other has the lock
C39_Witness ==
    \E m, o \in Migrators :
        /\ mpc[o] = "done" /\ outcome[o] \notin {"none", "running", "ok"}
        /\ mpc[m] = "plan" /\ lockHolder = m

\* the versions a call reported with success = True, in the order of the reports
ReportedDone(m) ==
    LET ok == SelectSeq(reported[m], LAMBDA r : r[2])
    IN  [i \in DOMAIN ok |-> ok[i][1]]
\* the versions whose row the call added to or took out of the committed table
CommittedSteps(m) ==
    (Range(history) \ Range(callHistory[m])) \cup (Range(callHistory[m]) \ Range(history))
\* C40: when up() / down() returns, the versions reported with success = True
\* are the steps the call committed, each reported once
C40_ReportsAgreeWithCommit ==
    \A m \in procs :
        (mpc[m] = "done" /\ outcome[m] = "ok") =>
            /\ NoDuplicates(ReportedDone(m))
            /\ Range(ReportedDone(m)) = CommittedSteps(m)

\* migrator m runs one iteration of the step loop
StepTaken(m) ==
    /\ mpc[m] = "apply" /\ plan[m] # << >>
    /\ << mpc[m], plan[m], reported[m] >>' # << mpc[m], plan[m], reported[m] >>

\* C27: every iteration of the step loop invokes the callback once, for the
\* version at the head of the plan: with success when the step succeeded,
\* and the migration then goes on with the rest of the plan whether or not
\* the callback raised; without success when the step raised, and the call
\* then ends with the error of the step.
C27_ProgressReportsEachStep ==
    [][\A m \in Migrators : StepTaken(m) =>
        /\ Len(reported'[m]) = Len(reported[m]) + 1
        /\ SubSeq(reported'[m], 1, Len(reported[m])) = reported[m]
        /\ Last(reported'[m])[1] = Head(plan[m])
        /\ IF Last(reported'[m])[2]
           THEN /\ mpc'[m] = "apply" /\ plan'[m] = Tail(plan[m])
                /\ outcome'[m] = "running"
           ELSE /\ mpc'[m] = "done"
                /\ outcome'[m] \in {"Exception", "SerializationFailure"}
                /\ history' = Rollback(history, txHistory[m])]_vars

\* a call whose callback raised at every invocation applied two steps, each
\* reported as a success, and was committed.
C27_Witness ==
    \E m \in procs :
        /\ mpc[m] = "done" /\ outcome[m] = "ok"
        /\ Len(reported[m]) = 2
        /\ \A i \in DOMAIN reported[m] : reported[m][i][2] /\ reported[m][i][3]
        /\ history # callHistory[m]

\* a row of the history table that the call found holds another sha256 than
\* the loaded migration of its version: rows a call inserts hold the loaded
\* sha256, so a differing row still present was there before the call
ChecksumMismatch(m) ==
    \E v \in Range(callHistory[m]) \cap Range(history) \cap Range(versions) :
        rowSha256[v] # sha256[v]

\* C14: a call of up() or down() that found a history row whose sha256
\* differs from the sha256 of the loaded migration of that version fails with
\* StateIntegrityError and applies nothing.
C14_ChecksumMismatchRejected ==
    \A m \in procs :
        (mpc[m] = "done" /\ ChecksumMismatch(m)) =>
            /\ outcome[m] = "StateIntegrityError"
            /\ history = callHistory[m]
            /\ schema = callSchema[m]

(***************************************************************************)
(* Properties of the planner.                                              *)
(***************************************************************************)
\* the members of a set of versions in ascending and in descending order
RECURSIVE Ascending(_)
Ascending(S) ==
    IF S = {} THEN << >> ELSE << Minimum(S) >> \o Ascending(S \ {Minimum(S)})
Descending(S) == Reverse(Ascending(S))
\* the state is a prefix of the loaded versions, in the order they were loaded
IsPrefix(state) ==
    /\ Len(state) <= Len(versions)
    /\ \A i \in DOMAIN state : state[i] = versions[i]

\* C11: on a state that is a prefix of the loaded versions, plan returns the
\* last version of the state as current (-1 for the empty state), UNCHANGED
\* with no steps when current is the clamped target, FORWARD with the loaded
\* versions in (current, target] in ascending order when the target is
\* greater, and BACKWARD with the versions in (target, current] in
\* descending order otherwise.
C11_PlanOnPrefix ==
    (planned.called /\ IsPrefix(planned.state)) =>
        LET r   == planned.result
            cur == IF planned.state = << >> THEN -1 ELSE Last(planned.state)
            tgt == Max2(Min2(planned.target, GreatestVersion), -1)
        IN  /\ r.err = "none"
            /\ r.current = cur
            /\ r.target = tgt
            /\ IF cur = tgt
               THEN r.direction = "UNCHANGED" /\ r.plan = << >>
               ELSE IF tgt > cur
               THEN /\ r.direction = "FORWARD"
                    /\ r.plan = Ascending({ v \in Range(versions) : cur < v /\ v <= tgt })
               ELSE /\ r.direction = "BACKWARD"
                    /\ r.plan = Descending({ v \in Range(versions) : tgt < v /\ v <= cur })

C28_FailedLoadAlwaysRaises ==
    (isLoaded /\ loaderErrors # {}) =>
        /\ loadResult = "LoadFailed"
        /\ checkResult # "ok"

\* C29: inside an application context get_connection has returned one
\* connection at most, the one kept on flask.g, and the pool lent one
\* connection at most; once the context is torn down the pool was given
\* back as many connections as it lent: one if one was borrowed, none
\* otherwise.
C29_RequestScopedLending ==
    /\ ctxApp # NoApp =>
          /\ borrowed <= 1
          /\ handed \subseteq {flaskG}
          /\ handed # {} => borrowed = 1
    /\ ctxApp = NoApp => returned = borrowed

Init == PoolInit /\ MigIdle /\ ExtIdle
Next == PoolNext
Spec == Init /\ [][Next]_vars

MigInit == PoolIdle /\ MigInitWith({1}, MaxVersion) /\ ExtIdle
MigSpec == MigInit /\ [][MigNext]_vars

ConcInit == PoolIdle /\ MigInitWith(Migrators, MaxVersion - 1) /\ ExtIdle
ConcSpec == ConcInit /\ [][MigNext]_vars

\* two migrators whose callers choose isolation_level and num_retries, each
\* running on and being granted the lock it waits for
RetryInit ==
    /\ PoolIdle /\ ExtIdle
    /\ MigAtRest(Migrators, MaxVersion - 1) /\ tunedCalls = TRUE
    /\ EmptyDatabase
RetrySpec == RetryInit /\ [][MigNext]_vars /\ MigScheduling

\* one migrator on a database that an earlier run migrated
ShaInit == PoolIdle /\ MigInitApplied({1}, MaxVersion - 1) /\ ExtIdle
ShaSpec == ShaInit /\ [][MigNext]_vars

\* the pool in a process that forks
ForkInit == Init /\ maxconn = 1 /\ stale_timeout = 1
ForkSpec == ForkInit /\ [][ForkNext]_vars

\* the pool of one connection without stale_timeout, under a scheduler that
\* runs every thread
StallInit == Init /\ stale_timeout = NoTimeout /\ maxconn = 1
StallSpec == StallInit /\ [][PoolSteps]_vars /\ Scheduling

\* a pool of CrowdCap connections, CrowdCap - 1 of them checked out and then
\* returned by as many threads, which all stand before put_nowait; thread 1
\* entered get_connection without a timeout when the pool was empty and
\* waits in queue.get
CrowdInit ==
    /\ minconn = 1 /\ maxconn = CrowdCap /\ stale_timeout = NoTimeout
    /\ closed = FALSE /\ queue = << >> /\ in_use = {} /\ in_pending = 0
    /\ shutdown = FALSE /\ workq = 0 /\ wpc = "idle" /\ wconn = NONE
    /\ now = CrowdCap - 1
    /\ conns = 1..(CrowdCap - 1)
    /\ connClosed = {}
    /\ pc = [t \in AllThreads |-> IF t = 1 THEN "get_wait"
                                  ELSE IF t \in Threads THEN "idle" ELSE "unborn"]
    /\ loc = [t \in AllThreads |-> NONE]
    /\ held = [t \in AllThreads |-> {}]
    /\ result = [t \in AllThreads |-> IF t = 1 THEN "running" ELSE "none"]
    /\ tmo = [t \in AllThreads |-> FALSE]
    /\ branch = [t \in AllThreads |-> "none"]
    /\ errors = [t \in AllThreads |-> FALSE]
    /\ waited = [t \in AllThreads |-> FALSE]
    /\ closeReturned = FALSE
    /\ pid = 1 /\ curpid = 1
    /\ MigIdle /\ LoaderIdle /\ FlaskInit
    /\ returning = 1..(CrowdCap - 1)
\* the returns finish, the waiter goes on, and the last thread calls close()
\* once; the two threads make no further call
CrowdNext ==
    \/ \E c \in 1..(CrowdCap - 1) : CrowdPut(c)
    \/ \E t \in {1} :
        \/ GetWait(t)
        \/ GetSentinel(t)
        \/ GetTake(t)
    \/ \E t \in {NumThreads} :
        \/ Close(t)
        \/ CloseSet(t)
        \/ CloseInUse(t)
        \/ CloseShutdown(t)
        \/ CloseJoin(t)
        \/ CloseIdle(t)
        \/ ClosePut(t)
CrowdSpec == CrowdInit /\ [][CrowdNext]_vars

\* Migrate.load on any migration directory
LoadInit == PoolIdle /\ MigIdle /\ LoaderInit /\ FlaskInit /\ NoCrowd
LoadSpec == LoadInit /\ [][LoadNext]_vars

\* the Flask extension over its pools
FlaskInitial == PoolIdle /\ MigIdle /\ LoaderIdle /\ FlaskInit /\ NoCrowd
FlaskSpec == FlaskInitial /\ [][FlaskNext]_vars

\* the planner alone, called on any state
PlanInit == PoolIdle /\ MigInitWith({}, MaxVersion) /\ ExtIdle
PlanSpec == PlanInit /\ [][PlannerCall]_vars

====
